---------------------------- MODULE Spec2Model ----------------------------
(***************************************************************************)
(* Crawl / classify / persist pipeline of libscanner                       *)
(* (scraper/analysis.py, scraper/scraper.py, scraper/models.py).           *)
(*                                                                         *)
(* Text is a tuple of one-character strings so that lower-casing,          *)
(* stripping and substring search are computed.  A URL is a record         *)
(* [abs, path, ext]: abs is "starts with http", ext the file suffix.       *)
(* Time is an integer instant; a date label denotes one instant.           *)
(***************************************************************************)
EXTENDS Integers, Sequences, FiniteSets, TLC

\* ------------------------------------------------------------------ bounds
MaxCards == 2       \* cards the source serves, all crawls together (an empty listing counts one)
MaxTicks == 1       \* clock advances observed
MaxDaysLimit == 2   \* largest lookback window tried
MaxRetryArg == 2    \* largest max_retries tried
MaxTasks == 2       \* task starts
MaxPageCards == 2   \* cards on a results page of the card extractor
MaxPdfLinks == 4    \* PDF links on a detail page
MaxCacheClock == 3  \* clock readings of the fetch cache
\* pages with cards one pipeline fetches in one crawl
MaxPagesFetched == 5

\* session resets in one process
MaxResets == 1

\* download links on one index page of the site with nested index pages
MaxSubLinks == 1

\* frames of save_to_database the interpreter allows (sys.getrecursionlimit)
MaxDepth == 3

MaxArretes == 2     \* entries in one answer of the extraction oracle

\* ------------------------------------------------------------------ text
Upper == <<"A","B","C","D","E","F","G","H","I","J","K","L","M",
           "N","O","P","Q","R","S","T","U","V","W","X","Y","Z">>
Lowers == <<"a","b","c","d","e","f","g","h","i","j","k","l","m",
            "n","o","p","q","r","s","t","u","v","w","x","y","z">>

LowerOf == [c \in {Upper[i] : i \in 1..Len(Upper)} |->
               Lowers[CHOOSE i \in 1..Len(Upper) : Upper[i] = c]]

\* str.lower() on one character
LowerChar(c) == IF c \in DOMAIN LowerOf THEN LowerOf[c] ELSE c

\* str.lower()
Lower(s) == [i \in 1..Len(s) |-> LowerChar(s[i])]

\* `sub in text` of Python
Contains(sub, text) ==
    \E i \in 0..(Len(text) - Len(sub)) :
        \A j \in 1..Len(sub) : text[i + j] = sub[j]

\* str.strip(): leading and trailing blanks removed
Strip(s) ==
    LET idx == {i \in 1..Len(s) : s[i] # " "}
    IN  IF idx = {} THEN <<>>
        ELSE LET lo == CHOOSE i \in idx : \A j \in idx : i <= j
                 hi == CHOOSE i \in idx : \A j \in idx : i >= j
             IN  SubSeq(s, lo, hi)

Digits == {"0","1","2","3","4","5","6","7","8","9"}

\* titles and keywords of the modelled site
tAvis == <<"A","v","i","s">>
tBovin == <<"S","t","a","g","e"," ","B","O","V","I","N">>
tPorcs == <<"p","o","r","c","s">>
tYear == <<" ","2","0","2","4">>
tEmpty == <<>>
kBovin == <<"b","o","v","i","n">>
kPorc == <<"P","o","r","c">>

\* detect_multi_document_page: the literal labels
ExactMatches == {
    <<"D","é","c","i","s","i","o","n","s">>,
    <<"D","i","v","e","r","s">>,
    <<"A","u","t","o","r","i","s","a","t","i","o","n","s"," ",
      "a","d","m","i","n","i","s","t","r","a","t","i","v","e","s">>,
    <<"A","r","r","ê","t","é","s"," ","d","'",
      "a","u","t","o","r","i","s","a","t","i","o","n">>,
    <<"E","n","r","e","g","i","s","t","r","e","m","e","n","t">>,
    <<"C","o","n","s","u","l","t","a","t","i","o","n","s">>,
    <<"L","e","s"," ","I","C","P","E"," ","s","o","u","m","i","s","e","s"," ",
      "à"," ","e","n","r","e","g","i","s","t","r","e","m","e","n","t">> }
PreuvesDeDepot == <<"P","r","e","u","v","e","s"," ","d","e"," ","d","é","p","ô","t">>
AnneePrefix == <<"A","n","n","é","e"," ">>

\* ^(19|20)\d{2}$
IsYear(t) ==
    /\ Len(t) = 4
    /\ \/ (t[1] = "1" /\ t[2] = "9")
       \/ (t[1] = "2" /\ t[2] = "0")
    /\ t[3] \in Digits
    /\ t[4] \in Digits

\* detect_multi_document_page(title) is not None
detect_multi_document_page(title) ==
    /\ Len(title) > 0
    /\ LET t == Strip(title)
       IN  \/ t \in ExactMatches
           \/ Contains(PreuvesDeDepot, t)
           \/ IsYear(t)
           \/ (Len(t) = 10 /\ SubSeq(t, 1, 6) = AnneePrefix /\ IsYear(SubSeq(t, 7, 10)))

\* ------------------------------------------------------------------ URLs
\* abs: href.startswith('http'); path "#" is a fragment-only reference;
\* ext is the suffix after the last dot; slash a trailing "/".
Url(a, p, e) == [abs |-> a, path |-> p, ext |-> e, slash |-> FALSE]
NoHref == [abs |-> FALSE, path |-> "", ext |-> "", slash |-> FALSE]

\* urllib.parse.urljoin(page_url, href) for a relative href of the same site
urljoin(base, href) ==
    IF href.path = "#" THEN base ELSE [href EXCEPT !.abs = TRUE]

\* link.lower().endswith('.pdf')
IsPdfLink(link) == link.ext \in {"pdf", "PDF", "Pdf"}

\* ------------------------------------------------------------------ dates
\* A detail text "<prefix> DD/MM/YYYY": date is the instant the digits denote,
\* valid is FALSE when datetime(y, m, d) raises (31/02/2024).
NoDetail == [prefix |-> "-", date |-> 0, valid |-> FALSE]
Detail(p, d, v) == [prefix |-> p, date |-> d, valid |-> v]

\* the text each DATE_PATTERNS entry requires before the digits
DATE_PATTERNS == {"Mis à jour le", "Publié le", "Le"}

\* parse_date_from_detail(detail_text); now is timezone.now()
parse_date_from_detail(detail, now) ==
    IF detail.prefix \in DATE_PATTERNS /\ detail.valid THEN detail.date ELSE now

\* ------------------------------------------------------------------ cards
Card(t, l, d, m) == [title |-> t, link |-> l, description |-> d, detail |-> m]

\* get_prefecture_by_domain(domain) over the PREFECTURES table
NoPrefecture == [name |-> "", code |-> "", region |-> ""]
get_prefecture_by_domain(domain) ==
    IF domain = "morbihan.gouv.fr"
    THEN [name |-> "Morbihan", code |-> "56", region |-> "Bretagne"]
    ELSE NoPrefecture

\* ------------------------------------------------- negative keywords
\* the list _negative_keywords_lower() builds from the NegativeKeyword table
LoadKeywords(table) == {Lower(kw) : kw \in {k \in table : Len(k) > 0}}

\* contains_negative_keywords(title, description) against a keyword list
contains_negative_keywords(kws, title, description) ==
    LET text == Lower(title \o <<" ">> \o description)
    IN  \E kw \in kws : Len(kw) > 0 /\ Contains(kw, text)

\* ------------------------------------------------- multi-document resolver
\* One <a class="fr-link--download">: href (NoHref when the attribute is
\* missing or empty), hasDate/date/valid the DD/MM/YYYY found in the detail
\* span, the href or the link text, text the link text left after cleaning.
DownloadLink(h, hd, d, t) == [href |-> h, hasDate |-> hd, date |-> d, valid |-> TRUE, text |-> t]

\* one iteration of the loop over download_links: is a card appended
DeterministicKeeps(dl) ==
    /\ dl.href # NoHref
    /\ dl.hasDate
    /\ Strip(dl.text) # <<>>

\* the ScrapedCard built from one download link
DeterministicCard(page_url, dl) ==
    Card(Strip(dl.text),
         IF dl.href.abs THEN dl.href ELSE urljoin(page_url, dl.href),
         <<>>,
         Detail("", dl.date, dl.valid))

\* extract_arretes_prefectoraux_deterministic(page_url) on a page whose
\* download links are dls
extract_arretes_prefectoraux_deterministic(page_url, dls) ==
    LET kept == SelectSeq(dls, DeterministicKeeps)
    IN  [i \in 1..Len(kept) |-> DeterministicCard(page_url, kept[i])]

\* a.rstrip('/')
RStripSlash(u) == [u EXCEPT !.slash = FALSE]

\* link == page_url or link.rstrip('/') == page_url.rstrip('/')
SamePage(link, page_url) ==
    link = page_url \/ RStripSlash(link) = RStripSlash(page_url)

\* the link of an oracle entry after "Ensure link is absolute"
AiAbsolute(page_url, link) ==
    IF link.abs THEN link ELSE urljoin(page_url, link)

\* the check after the link was made absolute is missing
AiKeepsNoRecheck(page_url, arrete) ==
    /\ Strip(arrete.title) # <<>>
    /\ arrete.link # NoHref
    /\ ~SamePage(arrete.link, page_url)

\* one iteration of the loop over result.arretes: is a card appended
AiKeeps(page_url, arrete) ==
    /\ Strip(arrete.title) # <<>>
    /\ arrete.link # NoHref
    /\ ~SamePage(arrete.link, page_url)
    /\ ~SamePage(AiAbsolute(page_url, arrete.link), page_url)

\* extract_arretes_prefectoraux_from_page_ai(page_text, page_url) when the
\* oracle answers arretes (aiOk FALSE: the call raised, [] is returned)
extract_arretes_prefectoraux_from_page_ai(page_url, aiOk, arretes) ==
    IF ~aiOk THEN <<>>
    ELSE LET Keep(a) == AiKeeps(page_url, a)
             kept == SelectSeq(arretes, Keep)
         IN  [i \in 1..Len(kept) |->
                Card(kept[i].title, AiAbsolute(page_url, kept[i].link), <<>>,
                     kept[i].date_updated)]

\* the AI pass is made whatever the deterministic pass found
AiInvokedAlways(page_url, content) == TRUE

\* line 585 `if not extracted_arretes:` after the deterministic pass
AiInvoked(page_url, content) ==
    extract_arretes_prefectoraux_deterministic(page_url, content.dl) = <<>>

\* lines 580-614 of save_to_database: deterministic pass, then the AI
\* fallback only if the deterministic pass found nothing
ResolveIndexPage(page_url, content) ==
    IF AiInvoked(page_url, content)
    THEN extract_arretes_prefectoraux_from_page_ai(page_url, content.aiOk, content.ai)
    ELSE extract_arretes_prefectoraux_deterministic(page_url, content.dl)

\* ------------------------------------------------------------------ store
\* GovernmentDocument rows; id is the primary key, 0 stands for None
NoRow == [id |-> 0]

\* GovernmentDocument.objects.filter(link=link).first()
FindByLink(rows, link) ==
    IF \E r \in rows : r.link = link
    THEN CHOOSE r \in rows : r.link = link
    ELSE NoRow

\* doc.save() of a new row without the unique constraint on link
InsertRowNoUnique(rows, row) == rows \cup {row}

\* doc.save() of a new row: link is unique=True, a second row with the
\* same link raises IntegrityError and inserts nothing
InsertRow(rows, row) ==
    IF \E r \in rows : r.link = row.link THEN rows ELSE rows \cup {row}

\* existing.save(): UPDATE ... WHERE id = existing.id; a row deleted in the
\* meantime is not written back
UpdateRow(rows, new) ==
    IF \E r \in rows : r.id = new.id
    THEN {r \in rows : r.id # new.id} \cup {new}
    ELSE rows

\* existing.delete(): DELETE ... WHERE id = existing.id
DeleteRow(rows, id) == {r \in rows : r.id # id}

\* ------------------------------------------------------- modelled site
InitClock == MaxDaysLimit + 1
DateRecent == InitClock - 1             \* inside every window at InitClock
DateOld == InitClock - MaxDaysLimit - 1  \* outside every window

La == Url(TRUE, "a", "")                \* a detail page
Lx == Url(TRUE, "x", "")                \* an index page
Ls == Url(FALSE, "s", "pdf")            \* a relative download href
Lself == Url(FALSE, "#", "")            \* a href back to the page itself

Paths == {"a", "x", "s"}
Workers == {1, 2}
Domains == <<"morbihan.gouv.fr", "autre.example">>   \* a listed and an unlisted domain
KeywordUniverse == {kBovin, kPorc}

CardUniverse ==
    {Card(tAvis, La, <<>>, m) :
        m \in {NoDetail, Detail("Mis à jour le", DateRecent, TRUE),
               Detail("Mis à jour le", DateOld, TRUE)}}
    \cup {Card(tPorcs, La, <<>>, Detail("Mis à jour le", DateRecent, TRUE)),
          Card(tBovin, La, <<>>, Detail("Le", DateRecent, TRUE)),
          Card(tYear, Lx, <<>>, NoDetail)}

\* the results pages of one crawl, in page order, of at most n cards
Pages(n) == UNION {[1..k -> CardUniverse] : k \in 0..n}

\* what an index page can hold: text is what fetch_page_text returns,
\* dl the download links, ai the oracle's answer for the page
IndexPages == {
    [text |-> "ok", dl |-> <<DownloadLink(Ls, TRUE, DateOld, tAvis)>>, ai |-> <<>>,
     aiOk |-> TRUE],
    [text |-> "ok",
     dl |-> <<DownloadLink(Lself, TRUE, DateRecent, tAvis),
              DownloadLink(Ls, FALSE, DateOld, tAvis)>>,
     ai |-> <<>>, aiOk |-> TRUE],
    [text |-> "ok", dl |-> <<DownloadLink(NoHref, TRUE, DateRecent, tAvis)>>,
     ai |-> <<[title |-> tAvis, link |-> Ls, date_updated |-> Detail("", DateRecent, TRUE)],
              [title |-> tAvis, link |-> Lself, date_updated |-> Detail("", DateRecent, TRUE)],
              [title |-> tEmpty, link |-> Ls, date_updated |-> Detail("", DateRecent, TRUE)]>>,
     aiOk |-> TRUE],
    [text |-> "ok", dl |-> <<>>, ai |-> <<>>, aiOk |-> FALSE],
    [text |-> "empty", dl |-> <<DownloadLink(Ls, TRUE, DateOld, tAvis)>>, ai |-> <<>>,
     aiOk |-> TRUE] }

\* what fetching and classifying one document can give: fetch "fail" is a
\* fetch failure after retries, info "error" an oracle call that raises
Outcomes == {
    [fetch |-> "ok", info |-> "plain"],
    [fetch |-> "ok", info |-> "error"],
    [fetch |-> "fail", info |-> "plain"] }

NoCache == [loaded |-> FALSE, kws |-> {}]
UnsetOutcome == [fetch |-> "unset", info |-> "unset"]
UnsetIndex == [text |-> "unset", dl |-> <<>>, ai |-> <<>>, aiOk |-> TRUE]
NoOutcome == [fetch |-> "none", info |-> "none"]

\* ------------------------------------------------------------------ state
VARIABLES
    store,      \* GovernmentDocument table
    nextId,     \* next primary key
    negKw,      \* NegativeKeyword table
    clock,      \* timezone.now()
    world,      \* path -> what fetch and oracle give for the document there
    indexPage,  \* what the index page holds
    pc,         \* worker -> "idle" | "next" | "write"
    args,       \* worker -> (domain, days_limit) of its crawl
    page,       \* worker -> cards of its crawl
    pos,        \* worker -> cards of page already taken
    todo,       \* worker -> sub-documents still to process
    cur,        \* worker -> the candidate being processed (or last processed)
    kwCache,    \* worker process -> lru_cache of _negative_keywords_lower
    runs,       \* worker -> crawls completed
    log,        \* worker -> store writes of the current top-level candidate
    hist,       \* worker -> bookkeeping about the crawl, read by the properties
    served,     \* cards the source has served so far
    rq,         \* make_request_with_retry: one call
    pager,      \* scrape_all_results of scraper.py: the pagination loop
    orch,       \* tasks.py: the task records, the queue and the worker
    ext,        \* scraper.py: extraction of one results page and its hand-over
    enr,        \* analysis.py: enrichment of one document with linked PDF text
    fcache,     \* the fetch cache: entries oldest first, clock, last call
    ai,         \* extract_arretes_prefectoraux_from_page_ai: one call
    net,        \* scraper.py: the module-level session and the pipelines of one process that use it
    rec         \* analysis.py: the recursive calls of save_to_database on index pages

syncVars == <<store, nextId, negKw, clock, world, indexPage, pc, args, page,
              pos, todo, cur, kwCache, runs, log, hist, served>>
sideVars == <<rq, pager, orch, ext, enr, fcache, ai, net, rec>>
vars == <<syncVars, sideVars>>

NoCur == [branch |-> "none"]
RqIdle == [state |-> "idle", max_retries |-> 0, attempt |-> 0, seen |-> <<>>]
PgIdle == [state |-> "idle", offset |-> 0, page_count |-> 0, requests |-> 0,
           last |-> 0, lastEmpty |-> FALSE, resets |-> 0, stop |-> "-"]

\* the pipeline at rest on a store holding rows, id the next primary key
InitStore(rows, id) ==
    /\ store = rows
    /\ nextId = id
    /\ negKw = {kBovin}
    /\ clock = InitClock
    /\ world = [p \in Paths |-> UnsetOutcome]
    /\ indexPage = UnsetIndex
    /\ pc = [w \in Workers |-> "idle"]
    /\ args = [w \in Workers |-> [domain |-> "morbihan.gouv.fr", days_limit |-> 1]]
    /\ page = [w \in Workers |-> <<>>]
    /\ pos = [w \in Workers |-> 0]
    /\ todo = [w \in Workers |-> <<>>]
    /\ cur = [w \in Workers |-> NoCur]
    /\ kwCache = [w \in Workers |-> NoCache]
    /\ runs = [w \in Workers |-> 0]
    /\ log = [w \in Workers |-> {}]
    /\ served = 0
    /\ hist = [w \in Workers |->
                 [prevSame |-> FALSE, quiet |-> FALSE, writes |-> 0, kwAtStart |-> {},
                  ret |-> 0]]

\* --------------------------------------------- save_to_database, one card
\* the candidate the loop of save_to_database takes next: the sub-documents
\* of an index page first (the recursive call), then the next card
HasCandidate(w) == todo[w] # <<>> \/ pos[w] < Len(page[w])
IsSub(w) == todo[w] # <<>>
NextCard(w) == IF IsSub(w) THEN Head(todo[w]) ELSE page[w][pos[w] + 1]
TopCard(w) == IF IsSub(w) THEN cur[w].top ELSE NextCard(w)

\* lines 517-521: date from the metadata if present, else now()
DateUpdated(card, now) ==
    IF card.detail = NoDetail THEN now ELSE parse_date_from_detail(card.detail, now)

\* _negative_keywords_lower(): computed on the first call, then the cached
\* list for the life of the process
CachedKeywords(cache, table) ==
    IF cache.loaded THEN cache ELSE [loaded |-> TRUE, kws |-> LoadKeywords(table)]

\* line 641: older than the lookback window
TooOldNever(date, now, days_limit) == FALSE

TooOld(date, now, days_limit) == date < now - days_limit

\* line 646: same link and same date_updated
IdentityNever(existing, date) == FALSE

IdentityShortCircuit(existing, date) ==
    existing.id # 0 /\ existing.date_updated = date

\* lines 761-768
ChangedNever(existing, card, date, pref) == FALSE

Changed(existing, card, date, pref) ==
    \/ existing.title # card.title
    \/ existing.description # card.description
    \/ existing.date_updated # date
    \/ (pref.name # "" /\ existing.prefecture_name # pref.name)
    \/ (pref.code # "" /\ existing.prefecture_code # pref.code)
    \/ (pref.region # "" /\ existing.region_name # pref.region)

\* what the chosen environment gives for a document / for the index page
WorldChoices(path) == IF world[path] = UnsetOutcome THEN Outcomes ELSE {world[path]}
IndexChoices == IF indexPage = UnsetIndex THEN IndexPages ELSE {indexPage}

\* bookkeeping common to every way of finishing a candidate before the write
Taken(w, branch, fetched, classified, kws, more, out) ==
    LET card == NextCard(w)
        existing == FindByLink(store, card.link)
        date == DateUpdated(card, clock)
    IN  /\ cur' = [cur EXCEPT ![w] =
                    [branch |-> branch, card |-> card, top |-> TopCard(w),
                     date_updated |-> date, existing |-> existing,
                     fetched |-> fetched, classified |-> classified,
                     text |-> IF out.fetch = "ok" THEN "text" ELSE "",
                     info |-> out.info, saved |-> 0,
                     checkedAt |-> clock,
                     cfgNeg |-> contains_negative_keywords(
                                    LoadKeywords(negKw), card.title, card.description),
                     hadSameDate |-> \E r \in store :
                                        r.link = card.link /\ r.date_updated = date]]
        /\ pos' = [pos EXCEPT ![w] = IF IsSub(w) THEN @ ELSE @ + 1]
        /\ todo' = [todo EXCEPT ![w] = more \o (IF IsSub(w) THEN Tail(@) ELSE <<>>)]
        /\ log' = [log EXCEPT ![w] =
                    (IF IsSub(w) THEN @ ELSE {})
                    \cup (IF branch = "negative" /\ existing.id # 0
                          THEN {[op |-> "delete", link |-> card.link, date |-> date,
                                 checked |-> clock, at |-> clock]}
                          ELSE {})]
        /\ kwCache' = [kwCache EXCEPT ![w] = kws]

\* lines 525-532: the lookup raises, the candidate is skipped
ProcLookupError(w) ==
    /\ pc[w] = "next" /\ HasCandidate(w)
    /\ Taken(w, "lookup_error", FALSE, FALSE, kwCache[w], <<>>, NoOutcome)
    /\ hist' = [hist EXCEPT ![w].quiet = FALSE]
    /\ UNCHANGED <<store, nextId, negKw, clock, world, indexPage, pc, args, page, runs, served, sideVars>>

\* lines 534-540: negative keyword: delete the existing row, never create
ProcNegative(w) ==
    /\ pc[w] = "next" /\ HasCandidate(w)
    /\ LET card == NextCard(w)
           kws == CachedKeywords(kwCache[w], negKw)
           existing == FindByLink(store, card.link)
       IN  /\ contains_negative_keywords(kws.kws, card.title, card.description)
           /\ Taken(w, "negative", FALSE, FALSE, kws, <<>>, NoOutcome)
           /\ store' = IF existing.id # 0 THEN DeleteRow(store, existing.id) ELSE store
    /\ UNCHANGED <<nextId, negKw, clock, world, indexPage, pc, args, page, runs, hist, served, sideVars>>

\* lines 542-638: the card is an index page; its sub-documents are
\* processed next, the page itself is skipped
ProcIndex(w) ==
    /\ pc[w] = "next" /\ HasCandidate(w)
    /\ LET card == NextCard(w)
           kws == CachedKeywords(kwCache[w], negKw)
       IN  /\ ~contains_negative_keywords(kws.kws, card.title, card.description)
           /\ detect_multi_document_page(card.title)
           /\ \E content \in IndexChoices :
                /\ indexPage' = content
                /\ Taken(w, "index", TRUE,
                         content.text = "ok" /\ AiInvoked(card.link, content),
                         kws,
                         IF content.text = "ok"
                         THEN ResolveIndexPage(card.link, content) ELSE <<>>,
                         NoOutcome)
    /\ UNCHANGED <<store, nextId, negKw, clock, world, pc, args, page, runs, hist, served, sideVars>>

\* lines 640-643: older than the lookback window
ProcStale(w) ==
    /\ pc[w] = "next" /\ HasCandidate(w)
    /\ LET card == NextCard(w)
           kws == CachedKeywords(kwCache[w], negKw)
       IN  /\ ~contains_negative_keywords(kws.kws, card.title, card.description)
           /\ ~detect_multi_document_page(card.title)
           /\ TooOld(DateUpdated(card, clock), clock, args[w].days_limit)
           /\ Taken(w, "stale", FALSE, FALSE, kws, <<>>, NoOutcome)
    /\ UNCHANGED <<store, nextId, negKw, clock, world, indexPage, pc, args, page, runs, hist, served, sideVars>>

\* lines 645-649: same link and date_updated as the stored row
ProcIdentity(w) ==
    /\ pc[w] = "next" /\ HasCandidate(w)
    /\ LET card == NextCard(w)
           kws == CachedKeywords(kwCache[w], negKw)
           date == DateUpdated(card, clock)
       IN  /\ ~contains_negative_keywords(kws.kws, card.title, card.description)
           /\ ~detect_multi_document_page(card.title)
           /\ ~TooOld(date, clock, args[w].days_limit)
           /\ IdentityShortCircuit(FindByLink(store, card.link), date)
           /\ Taken(w, "identity", FALSE, FALSE, kws, <<>>, NoOutcome)
    /\ UNCHANGED <<store, nextId, negKw, clock, world, indexPage, pc, args, page, runs, hist, served, sideVars>>

\* no oracle call raises
OracleNeverRaises(out) == FALSE

\* lines 660-668: get_document_info or check_if_intensive_farming raises
\* (call_openai_api turns every failure of the call into an exception)
OracleRaises(out) == out.info = "error"

\* lines 651-671: full text fetched, then classified by the oracle.  A page
\* fetch that fails raises; extract_text_from_pdf returns "" instead and
\* the empty text is classified.  An oracle failure raises.  A raise ends
\* the candidate (line 826).
ProcClassify(w) ==
    /\ pc[w] = "next" /\ HasCandidate(w)
    /\ LET card == NextCard(w)
           kws == CachedKeywords(kwCache[w], negKw)
           date == DateUpdated(card, clock)
       IN  /\ ~contains_negative_keywords(kws.kws, card.title, card.description)
           /\ ~detect_multi_document_page(card.title)
           /\ ~TooOld(date, clock, args[w].days_limit)
           /\ ~IdentityShortCircuit(FindByLink(store, card.link), date)
           /\ \E out \in WorldChoices(card.link.path) :
                LET raised == out.fetch = "fail" /\ ~IsPdfLink(card.link)
                    failed == raised \/ OracleRaises(out)
                IN  /\ world' = [world EXCEPT ![card.link.path] = out]
                    /\ Taken(w, IF raised THEN "fetch_error"
                                ELSE IF failed THEN "oracle_error" ELSE "classified",
                             TRUE, ~raised, kws, <<>>, out)
                    /\ pc' = [pc EXCEPT ![w] = IF failed THEN "next" ELSE "write"]
    /\ UNCHANGED <<store, nextId, negKw, clock, indexPage, args, page, runs, hist, served, sideVars>>

\* the attribution is assigned whatever the new value is
UpdatedRowOverwrite(row, c, pref) ==
    [row EXCEPT !.title = c.card.title,
                !.description = c.card.description,
                !.date_updated = c.date_updated,
                !.full_page_text = c.text,
                !.summary = c.info,
                !.prefecture_name = pref.name,
                !.prefecture_code = pref.code,
                !.region_name = pref.region]

\* the fields existing.save() writes on update (lines 771-783): attribution
\* assigned only when the new value is non-empty; animal_type and
\* animal_number are not assigned.  The instance was loaded with .only(...)
\* (lines 525-528), so save() writes the loaded fields, attribution
\* included, with the values the lookup read
UpdatedRow(row, c, pref) ==
    [row EXCEPT !.title = c.card.title,
                !.description = c.card.description,
                !.date_updated = c.date_updated,
                !.full_page_text = c.text,
                !.summary = c.info,
                !.prefecture_name = IF pref.name # "" THEN pref.name
                                    ELSE c.existing.prefecture_name,
                !.prefecture_code = IF pref.code # "" THEN pref.code
                                    ELSE c.existing.prefecture_code,
                !.region_name = IF pref.region # "" THEN pref.region
                                ELSE c.existing.region_name]

\* the row GovernmentDocument(...) builds on create (lines 791-805); the
\* oracle's answer is carried whole in summary and animal_type
NewRow(id, c, pref) ==
    [id |-> id, link |-> c.card.link, title |-> c.card.title,
     description |-> c.card.description, date_updated |-> c.date_updated,
     full_page_text |-> c.text, summary |-> c.info, animal_type |-> c.info,
     prefecture_name |-> pref.name, prefecture_code |-> pref.code,
     region_name |-> pref.region]

\* lines 759-807: update the row looked up earlier, or create one
Write(w) ==
    /\ pc[w] = "write"
    /\ LET c == cur[w]
           pref == get_prefecture_by_domain(args[w].domain)
           ev(op) == [op |-> op, link |-> c.card.link, date |-> c.date_updated,
                      checked |-> c.checkedAt, at |-> clock]
       IN  IF c.existing.id # 0
           THEN IF Changed(c.existing, c.card, c.date_updated, pref)
                THEN LET live == \E r \in store : r.id = c.existing.id
                         row == CHOOSE r \in store : r.id = c.existing.id
                     IN  /\ store' = IF live THEN UpdateRow(store, UpdatedRow(row, c, pref))
                                     ELSE store
                         /\ cur' = [cur EXCEPT ![w].branch = IF live THEN "updated" ELSE "write_error",
                                               ![w].saved = IF live THEN 1 ELSE 0]
                         /\ log' = [log EXCEPT ![w] = IF live THEN @ \cup {ev("update")} ELSE @]
                         /\ hist' = [hist EXCEPT ![w].writes = IF live THEN @ + 1 ELSE @]
                         /\ UNCHANGED nextId
                ELSE /\ cur' = [cur EXCEPT ![w].branch = "unchanged"]
                     /\ UNCHANGED <<store, log, hist, nextId>>
           ELSE LET free == ~\E r \in store : r.link = c.card.link
                IN  /\ store' = InsertRow(store, NewRow(nextId, c, pref))
                    /\ nextId' = IF free THEN nextId + 1 ELSE nextId
                    /\ cur' = [cur EXCEPT ![w].branch = IF store' # store THEN "created" ELSE "write_error",
                                          ![w].saved = IF store' # store THEN 1 ELSE 0]
                    /\ log' = [log EXCEPT ![w] = IF store' # store THEN @ \cup {ev("create")} ELSE @]
                    /\ hist' = [hist EXCEPT ![w].writes = IF store' # store THEN @ + 1 ELSE @]
    /\ pc' = [pc EXCEPT ![w] = "next"]
    /\ UNCHANGED <<negKw, clock, world, indexPage, args, page, pos, todo, kwCache, runs, served, sideVars>>

\* ------------------------------------------------------ scrape_all_results
\* remove_documents_with_negative_keywords(): every row whose title or
\* description contains a keyword of the cached list is deleted
Sweep(rows, kws) ==
    {r \in rows : ~contains_negative_keywords(kws, r.title, r.description)}

\* scrape_all_results(domain, keyword, days_limit) starts: the pages the
\* source serves for the keyword are those of pg.  A worker keeps the
\* days_limit of its first crawl.
StartRun(w, domains, limits) ==
    /\ pc[w] = "idle"
    /\ served < MaxCards
    /\ \E pg \in Pages(MaxCards - served), d \in domains,
          n \in (IF runs[w] = 0 THEN limits ELSE {args[w].days_limit}) :
        /\ page' = [page EXCEPT ![w] = pg]
        /\ served' = served + (IF pg = <<>> THEN 1 ELSE Len(pg))
        /\ args' = [args EXCEPT ![w] = [domain |-> d, days_limit |-> n]]
        /\ hist' = [hist EXCEPT ![w] =
                     [prevSame |-> /\ runs[w] > 0
                                   /\ hist[w].quiet
                                   /\ pg = page[w]
                                   /\ d = args[w].domain
                                   /\ n = args[w].days_limit,
                      quiet |-> TRUE, writes |-> 0, kwAtStart |-> negKw, ret |-> 0]]
    /\ pos' = [pos EXCEPT ![w] = 0]
    /\ todo' = [todo EXCEPT ![w] = <<>>]
    /\ pc' = [pc EXCEPT ![w] = "next"]
    /\ UNCHANGED <<store, nextId, negKw, clock, world, indexPage, cur, kwCache, runs, log, sideVars>>

\* line 940: what scrape_all_results returns, whatever total_saved is
RunReturnValue(total_saved) == <<>>

\* lines 926-940: every card processed, the sweep runs and the crawl
\* returns; the sweep reads the keyword list once per stored row.  ret is
\* the count the caller takes from the returned value (tasks.py 344)
EndRun(w) ==
    /\ pc[w] = "next"
    /\ ~HasCandidate(w)
    /\ LET kws == IF store = {} THEN kwCache[w] ELSE CachedKeywords(kwCache[w], negKw)
       IN  /\ store' = Sweep(store, kws.kws)
           /\ kwCache' = [kwCache EXCEPT ![w] = kws]
    /\ runs' = [runs EXCEPT ![w] = @ + 1]
    /\ pc' = [pc EXCEPT ![w] = "idle"]
    /\ cur' = [cur EXCEPT ![w] = NoCur]
    /\ log' = [log EXCEPT ![w] = {}]
    /\ hist' = [hist EXCEPT ![w].ret = Len(RunReturnValue(hist[w].writes))]
    /\ UNCHANGED <<nextId, negKw, clock, world, indexPage, args, page, pos, todo, served, sideVars>>

\* ------------------------------------------------------------ environment
\* time passes: between crawls, and while a candidate's page is fetched
\* and classified
Tick(ws) ==
    /\ \A w \in ws : pc[w] \in {"idle", "write"}
    /\ clock < InitClock + MaxTicks
    /\ clock' = clock + 1
    /\ UNCHANGED <<store, nextId, negKw, world, indexPage, pc, args, page, pos,
                   todo, cur, kwCache, runs, log, hist, served, sideVars>>

\* add_negative_keyword / the admin adds a row to NegativeKeyword
AddNegativeKeyword ==
    /\ \E k \in KeywordUniverse \ negKw : negKw' = negKw \cup {k}
    /\ hist' = [w \in Workers |-> [hist[w] EXCEPT !.quiet = FALSE]]
    /\ UNCHANGED <<store, nextId, clock, world, indexPage, pc, args, page, pos,
                   todo, cur, kwCache, runs, log, served, sideVars>>

Worker(w, domains, limits) ==
    \/ StartRun(w, domains, limits)
    \/ ProcNegative(w)
    \/ ProcIndex(w)
    \/ ProcStale(w)
    \/ ProcIdentity(w)
    \/ ProcClassify(w)
    \/ Write(w)
    \/ EndRun(w)

\* tasks.py: no task started, nothing queued
NoFilter == [region_filter |-> "", prefecture_filter |-> <<>>]

NoEntry == [count |-> 0, error |-> FALSE]

NoTask == [via |-> "-", kind |-> "-", filter |-> NoFilter, phase |-> "none",
           status |-> "-", ops |-> <<>>, started |-> 0, crawling |-> "-",
           truth |-> "-", entry |-> NoEntry, fetched |-> FALSE,
           cancelled |-> FALSE, afterCancel |-> FALSE,
           total_operations |-> 0, raised |-> FALSE]

TaskIds == 1..MaxTasks

OrchIdle == [tasks |-> [i \in TaskIds |-> NoTask], queue |-> <<>>]

\* scraper.py: no results page being extracted
ExtIdle == [state |-> "idle", cards |-> <<>>, results |-> <<>>, dropped |-> <<>>,
            classified |-> <<>>]

\* analysis.py: no document being enriched
EnrIdle == [state |-> "idle", is_animal_project |-> FALSE, is_intensive_farming |-> FALSE,
            ran |-> FALSE, nlinks |-> 0, pdf_sample |-> <<>>, done |-> 0,
            extracted |-> <<>>, appended_texts |-> <<>>, total_appended |-> 0,
            refined |-> FALSE, raised_at |-> 0, failed |-> "-", result |-> "primary"]

\* the fetch cache: empty
CacheIdle == [entries |-> <<>>, now |-> 0, content |-> 0,
              last |-> [called |-> FALSE, key |-> "-", value |-> 0, computed |-> FALSE,
                        stored |-> -1, age |-> -1, content |-> 0]]

\* the AI-assisted pass: not called
AiIdle == [state |-> "idle", page_url |-> Lx, aiOk |-> TRUE, arretes |-> <<>>,
           result |-> <<>>]


\* the pipelines of one process, one per source
Pipelines == {1, 2}

\* values of the User-Agent header (get_headers)
UserAgents == {"ua1", "ua2"}

\* scraper.py lines 42-46: `session = requests.Session()` at module level,
\* one object for every caller in the process; no pipeline has started
NetIdle == [session |-> [id |-> 0, open |-> TRUE, ua |-> "default"],
            th |-> [i \in Pipelines |->
                      [state |-> "idle", page_count |-> 0, sid |-> 0, ua |-> "default"]]]


\* save_to_database not called; stack holds one frame per index page being
\* expanded: its URL and the sub-documents still to hand over
RecIdle == [state |-> "idle", site |-> <<>>, stack |-> <<>>, expansions |-> 0]

InitSync == InitStore({}, 1)

InitSide == rq = RqIdle /\ pager = PgIdle /\ orch = OrchIdle /\ ext = ExtIdle /\ enr = EnrIdle
            /\ fcache = CacheIdle /\ ai = AiIdle /\ net = NetIdle /\ rec = RecIdle

Init == InitSync /\ InitSide

\* one worker process crawling, the clock and the keyword table changing
Next == Worker(1, {Domains[1]}, 1..MaxDaysLimit) \/ Tick({1}) \/ AddNegativeKeyword

Spec == Init /\ [][Next]_vars

\* two worker processes on the same store, one crawling the listed domain
\* and one the unlisted, both with the widest window
WorkerConc(w) == Worker(w, {Domains[w]}, {MaxDaysLimit}) \/ ProcLookupError(w)

NextConc == WorkerConc(1) \/ WorkerConc(2)

SpecConc == Init /\ [][NextConc]_vars

\* a row an earlier crawl created for the detail page, its date now old
SeedRow ==
    NewRow(1, [card |-> Card(tAvis, La, <<>>, Detail("Mis à jour le", DateOld, TRUE)),
               date_updated |-> DateOld, text |-> "text", info |-> "plain"],
           get_prefecture_by_domain(Domains[1]))

InitOracle == InitStore({SeedRow}, 2) /\ InitSide

\* one worker process crawling with the widest window over a store that
\* holds the row of an earlier crawl
NextOracle == Worker(1, {Domains[1]}, {MaxDaysLimit})

SpecOracle == InitOracle /\ [][NextOracle]_vars

\* the same, the crawls being of the listed or of the unlisted domain
NextDomains == Worker(1, {Domains[1], Domains[2]}, {MaxDaysLimit})

SpecDomains == InitOracle /\ [][NextDomains]_vars

\* ------------------------------------------------ make_request_with_retry
\* what one session.get + raise_for_status can give
TransientKinds == {"timeout", "connection", "http_429", "http_5xx"}
Kinds == TransientKinds \cup {"ok", "http_4xx", "exception"}

\* one iteration of `for attempt in range(max_retries + 1)` (lines 91-134):
\* what the try/except does with the result of the attempt
AttemptOutcome(kind, attempt, max_retries) ==
    IF kind = "ok" THEN "return"
    ELSE IF kind \in {"timeout", "connection", "http_429", "exception"}
         THEN IF attempt = max_retries THEN "raise" ELSE "retry"
         ELSE "raise"

\* make_request_with_retry(url, max_retries) is called
RetryCall ==
    /\ rq.state # "running"
    /\ \E n \in 0..MaxRetryArg :
         rq' = [state |-> "running", max_retries |-> n, attempt |-> 0, seen |-> <<>>]
    /\ UNCHANGED <<syncVars, pager, orch, ext, enr, fcache, ai, net, rec>>

\* one request attempt and its except clause
RetryAttempt ==
    /\ rq.state = "running"
    /\ \E kind \in Kinds :
         LET o == AttemptOutcome(kind, rq.attempt, rq.max_retries)
         IN  rq' = [rq EXCEPT !.seen = Append(@, kind),
                              !.state = IF o = "return" THEN "returned"
                                        ELSE IF o = "raise" THEN "raised" ELSE "running",
                              !.attempt = IF o = "retry" THEN @ + 1 ELSE @]
    /\ UNCHANGED <<syncVars, pager, orch, ext, enr, fcache, ai, net, rec>>

NextRetry == RetryCall \/ RetryAttempt

SpecRetry == Init /\ [][NextRetry]_vars

\* ------------------------------------ scrape_all_results (scraper.py), pager
OffsetStep == 10
OffsetCeiling == 1000
ResetEvery == 5

\* line 884: the safety check after the offset was advanced
CeilingNever(offset) == FALSE

CeilingReached(offset) == offset > OffsetCeiling

\* lines 849-855: scrape_all_results(domain, keyword) is called
PagerStart ==
    /\ pager.state # "loop"
    /\ pager' = [PgIdle EXCEPT !.state = "loop"]
    /\ UNCHANGED <<syncVars, rq, orch, ext, enr, fcache, ai, net, rec>>

\* lines 857-888: one iteration of `while True`: the page at pager.offset is
\* requested and its cards extracted (empty: the page gave no card), then
\* the loop ends or the offset advances
PagerPage ==
    /\ pager.state = "loop"
    /\ \E empty \in BOOLEAN :
         LET offset == pager.offset + OffsetStep
             page_count == pager.page_count + 1
             seen == [pager EXCEPT !.requests = @ + 1, !.last = pager.offset,
                                !.lastEmpty = empty]
         IN  pager' = IF empty
                   THEN [seen EXCEPT !.state = "done", !.stop = "empty"]
                   ELSE [seen EXCEPT
                           !.offset = offset,
                           !.page_count = page_count,
                           !.resets = IF page_count % ResetEvery = 0 THEN @ + 1 ELSE @,
                           !.state = IF CeilingReached(offset) THEN "done" ELSE "loop",
                           !.stop = IF CeilingReached(offset) THEN "ceiling" ELSE "-"]
    /\ UNCHANGED <<syncVars, rq, orch, ext, enr, fcache, ai, net, rec>>

NextPager == PagerStart \/ PagerPage

SpecPager == Init /\ [][NextPager]_vars

\* ------------------------------------------------ tasks.py, the orchestrator
WorkerConcurrency == 1

nMorbihan == <<"M","o","r","b","i","h","a","n">>
nAin == <<"A","i","n">>

\* constants.py PREFECTURES, two of its entries
PREFECTURES ==
    <<[name |-> nMorbihan, region |-> "Bretagne", domain |-> "morbihan.gouv.fr"],
      [name |-> nAin, region |-> "Auvergne-Rhone-Alpes", domain |-> "ain.gouv.fr"]>>

TaskKeywords == <<"bovin">>

get_prefectures_by_region(region_name) ==
    SelectSeq(PREFECTURES, LAMBDA p : p.region = region_name)

\* the filters a task can be started with ("" and <<>>: no filter)
FilterChoices ==
    {[region_filter |-> "", prefecture_filter |-> <<>>],
     [region_filter |-> "Bretagne", prefecture_filter |-> <<>>],
     [region_filter |-> "", prefecture_filter |-> Lower(nMorbihan)],
     [region_filter |-> "Atlantide", prefecture_filter |-> <<>>],
     [region_filter |-> "Bretagne", prefecture_filter |-> nAin]}

\* lines 265-282 (44-55 in the basic task): the prefectures left by the two
\* filters; failed: one of the two `if not prefectures_to_scrape` raised
prefectures_to_scrape(f) ==
    LET byRegion == IF f.region_filter # ""
                    THEN get_prefectures_by_region(f.region_filter)
                    ELSE PREFECTURES
        byName == IF f.prefecture_filter # <<>>
                  THEN SelectSeq(byRegion,
                           LAMBDA p : Lower(p.name) = Lower(f.prefecture_filter))
                  ELSE byRegion
    IN  IF f.region_filter # "" /\ byRegion = <<>>
        THEN [failed |-> TRUE, list |-> <<>>]
        ELSE [failed |-> f.prefecture_filter # <<>> /\ byName = <<>>, list |-> byName]

\* the check of the two filters never raises
EmptySetNever(working) == FALSE

EmptySetRaises(working) == working.failed

\* `for keyword in keywords: for prefecture in prefectures_to_scrape`
RECURSIVE OpsOf(_, _)
OpsOf(keywords, prefs) ==
    IF keywords = <<>> THEN <<>>
    ELSE [i \in 1..Len(prefs) |-> [domain |-> prefs[i].domain, keyword |-> Head(keywords)]]
         \o OpsOf(Tail(keywords), prefs)

\* what one scrape_all_results(domain, keyword) of scraper.py meets on its
\* first results page
CrawlOutcomes == {"cards", "empty", "fetch_failed", "raised"}

\* scraper.py 623-706 and 857-866: the result list of the crawl; a failed
\* fetch is caught in scrape_government_site and becomes the empty list,
\* on which the loop of scrape_all_results ends
CrawlResults(outcome) ==
    IF outcome = "cards" THEN <<"card">> ELSE <<>>

\* only initialize_scraper(), outside the try, lets an exception through
CrawlRaises(outcome) == outcome = "raised"

\* tasks.py 98-124 / 337-385: the per-prefecture entry of one operation
EntryOf(outcome) ==
    IF CrawlRaises(outcome) THEN [count |-> 0, error |-> TRUE]
    ELSE [count |-> Len(CrawlResults(outcome)), error |-> FALSE]

\* the first unused task slot
Fresh(i) ==
    /\ orch.tasks[i].phase = "none"
    /\ \A j \in TaskIds : j < i => orch.tasks[j].phase # "none"

\* admin.py 414-415 / 618-619: running_tasks.exists()
RunningExists ==
    \E j \in TaskIds : orch.tasks[j].status \in {"PENDING", "PROGRESS"}

\* the tasks a worker process is executing
Executing == {j \in TaskIds : orch.tasks[j].phase = "running"}

\* the pool takes tasks whatever it is executing
PoolAlwaysFree(executing) == TRUE

\* start_celery_worker.py 22: the pool of the worker has one process
PoolHasFreeSlot(executing) == Cardinality(executing) < WorkerConcurrency

RemoveFromQueue(q, i) == SelectSeq(q, LAMBDA j : j # i)

\* admin.py 413-417 / 617-621: the start view or the admin action looks for
\* running tasks and gives up when there is one
StartCheck(i) ==
    /\ Fresh(i)
    /\ \E via \in {"view", "action"} :
         orch' = [orch EXCEPT !.tasks[i].via = via,
                              !.tasks[i].phase = IF RunningExists THEN "refused"
                                                 ELSE "cleared"]
    /\ UNCHANGED <<syncVars, rq, pager, ext, enr, fcache, ai, net, rec>>

\* admin.py 432-450 / 623-641: the record is created and the task queued
StartCreate(i) ==
    /\ orch.tasks[i].phase = "cleared"
    /\ orch' = [orch EXCEPT !.tasks[i].phase = "queued",
                            !.tasks[i].kind = "enhanced",
                            !.tasks[i].status = "PENDING",
                            !.queue = Append(@, i)]
    /\ UNCHANGED <<syncVars, rq, pager, ext, enr, fcache, ai, net, rec>>

\* start_animal_task.py 50-74, start_admin_task.py 49-73: record created and
\* task queued, no look at running tasks; the basic task has no record
StartCommand(i, filters, kinds) ==
    /\ Fresh(i)
    /\ \E f \in filters, kind \in kinds :
         orch' = [orch EXCEPT !.tasks[i].via = "command",
                              !.tasks[i].kind = kind,
                              !.tasks[i].filter = f,
                              !.tasks[i].phase = "queued",
                              !.tasks[i].status = IF kind = "enhanced" THEN "PENDING"
                                                  ELSE "-",
                              !.queue = Append(@, i)]
    /\ UNCHANGED <<syncVars, rq, pager, ext, enr, fcache, ai, net, rec>>

\* the worker takes the task at the head of the queue; tasks.py 242-295
\* (28-62): the filters are applied, an empty working set raises
TaskBegin(i) ==
    /\ orch.queue # <<>>
    /\ i = Head(orch.queue)
    /\ PoolHasFreeSlot(Executing)
    /\ LET t == orch.tasks[i]
           working == prefectures_to_scrape(t.filter)
       IN  orch' = [orch EXCEPT
             !.queue = Tail(@),
             !.tasks[i] =
                IF EmptySetRaises(working)
                THEN [t EXCEPT !.phase = "aborted",
                               !.status = IF t.kind = "enhanced" THEN "FAILURE" ELSE @]
                ELSE [t EXCEPT !.phase = "running",
                               !.ops = OpsOf(TaskKeywords, working.list),
                               !.total_operations =
                                   Len(working.list) * Len(TaskKeywords)]]
    /\ UNCHANGED <<syncVars, rq, pager, ext, enr, fcache, ai, net, rec>>

\* tasks.py 303-337 (67-98): the next operation starts; update_progress
\* sets the record to PROGRESS, then scrape_all_results is called
OpBegin(i) ==
    /\ orch.tasks[i].phase = "running"
    /\ orch.tasks[i].crawling = "-"
    /\ orch.tasks[i].ops # <<>>
    /\ LET t == orch.tasks[i]
       IN  orch' = [orch EXCEPT !.tasks[i] =
             [t EXCEPT !.status = IF t.kind = "enhanced" THEN "PROGRESS" ELSE @,
                       !.crawling = Head(t.ops).domain,
                       !.started = @ + 1,
                       !.afterCancel = @ \/ t.cancelled]]
    /\ UNCHANGED <<syncVars, rq, pager, ext, enr, fcache, ai, net, rec>>

\* the exception of a crawl leaves the loops
OperationUnwindsIfRaised(outcome) == CrawlRaises(outcome)

\* tasks.py 375-383 (117-124): `except Exception as e: ... continue` around
\* the body of one operation: no exception of a crawl leaves the loops
OperationUnwinds(outcome) == FALSE

\* tasks.py 337-385 (98-124): scrape_all_results comes back and the entry
\* of the operation is recorded; an exception that left the loops would
\* reach the outer handler (435-438), which marks the record failed
OpEnd(i, outcomes) ==
    /\ orch.tasks[i].phase = "running"
    /\ orch.tasks[i].crawling # "-"
    /\ \E outcome \in outcomes :
         LET t == orch.tasks[i]
         IN  orch' = [orch EXCEPT !.tasks[i] =
               IF OperationUnwinds(outcome)
               THEN [t EXCEPT !.crawling = "-",
                              !.truth = outcome,
                              !.raised = TRUE,
                              !.phase = "failed",
                              !.status = IF t.kind = "enhanced" THEN "FAILURE" ELSE @]
               ELSE [t EXCEPT !.crawling = "-",
                              !.ops = Tail(@),
                              !.truth = outcome,
                              !.entry = EntryOf(outcome),
                              !.raised = @ \/ CrawlRaises(outcome),
                              !.fetched = @ \/ outcome # "raised"]]
    /\ UNCHANGED <<syncVars, rq, pager, ext, enr, fcache, ai, net, rec>>

\* tasks.py 387-433 (126-160): the loops are over, mark_completed
TaskEnd(i) ==
    /\ orch.tasks[i].phase = "running"
    /\ orch.tasks[i].crawling = "-"
    /\ orch.tasks[i].ops = <<>>
    /\ LET t == orch.tasks[i]
       IN  orch' = [orch EXCEPT !.tasks[i] =
             [t EXCEPT !.phase = "done",
                       !.status = IF t.kind = "enhanced" THEN "SUCCESS" ELSE @]]
    /\ UNCHANGED <<syncVars, rq, pager, ext, enr, fcache, ai, net, rec>>

\* models.py 175-262, admin.py 462-468 / 662-665: force_stop of a record
\* that is PENDING or PROGRESS. The record becomes REVOKED in every branch;
\* delivered: the revoke (or the kill of the worker processes) reached the
\* process that holds the task
ForceStop(i) ==
    /\ orch.tasks[i].phase \in {"queued", "running"}
    /\ orch.tasks[i].status \in {"PENDING", "PROGRESS"}
    /\ \E delivered \in BOOLEAN :
         LET t == orch.tasks[i]
         IN  orch' = [orch EXCEPT
               !.queue = IF delivered THEN RemoveFromQueue(@, i) ELSE @,
               !.tasks[i] =
                  [t EXCEPT !.status = "REVOKED",
                            !.cancelled = TRUE,
                            !.phase = IF delivered THEN "killed" ELSE @,
                            !.crawling = IF delivered THEN "-" ELSE @]]
    /\ UNCHANGED <<syncVars, rq, pager, ext, enr, fcache, ai, net, rec>>

TaskKinds == {"enhanced", "basic"}

\* one task started from the command line with any filters, run by the
\* worker and possibly force-stopped
NextTask ==
    \/ StartCommand(1, FilterChoices, TaskKinds)
    \/ TaskBegin(1)
    \/ OpBegin(1)
    \/ OpEnd(1, CrawlOutcomes)
    \/ TaskEnd(1)
    \/ ForceStop(1)

SpecTask == Init /\ [][NextTask]_vars

\* several unfiltered enhanced tasks started through the admin pages and
\* the command line, every crawl finding cards
NextStarts ==
    \E i \in TaskIds :
        \/ StartCheck(i)
        \/ StartCreate(i)
        \/ StartCommand(i, {NoFilter}, {"enhanced"})
        \/ TaskBegin(i)
        \/ OpBegin(i)
        \/ OpEnd(i, {"cards"})
        \/ TaskEnd(i)
        \/ ForceStop(i)

SpecStarts == Init /\ [][NextStarts]_vars

\* save_to_database over a list of candidates on a shared store, and one
\* task over its operations, each explored on its own
NextContain ==
    \/ (orch = OrchIdle /\ NextConc)
    \/ (served = 0 /\ NextTask)

SpecContain == Init /\ [][NextContain]_vars

\* ------------------------------- scraper.py: card extraction and hand-over

\* a div.fr-card of a results page: its heading (h3/h2/h1), its first <a>
\* and whether reading it throws
NoHeading == <<"none">>
NoAnchor == Url(FALSE, "none", "")
CardElements ==
    [heading : {NoHeading, <<>>, tBovin},
     a : {NoAnchor, NoHref, Url(FALSE, "x", "html"), Url(TRUE, "x", "html")},
     throws : BOOLEAN]

\* lines 752-761: the href, made absolute with the domain when relative
CardLink(original_link, domain) ==
    IF original_link.path # "" /\ ~original_link.abs /\ domain # ""
    THEN [original_link EXCEPT !.abs = TRUE]
    ELSE original_link

\* lines 709-817: the dictionary extract_card_data returns; an exception
\* gives {}
extract_card_data(card_element, domain) ==
    IF card_element.throws THEN <<>>
    ELSE LET title == IF card_element.heading # NoHeading
                      THEN "title" :> card_element.heading ELSE <<>>
             link == IF card_element.a # NoAnchor
                     THEN "link" :> CardLink(card_element.a, domain) ELSE <<>>
         IN  title @@ link @@ ("html_content" :> "div")

\* dict.get(key, default)
Get(d, key, default) == IF key \in DOMAIN d THEN d[key] ELSE default

\* line 681 `if card_data:`: the dictionary has an entry
Truthy(card_data) == DOMAIN card_data # {}

\* lines 671-676: a results page arrived and its cards were found
ExtractPage ==
    /\ ext.state \in {"idle", "done"}
    /\ \E n \in 1..MaxPageCards : \E cards \in [1..n -> CardElements] :
         ext' = [ExtIdle EXCEPT !.state = "extract", !.cards = cards]
    /\ UNCHANGED <<syncVars, rq, pager, orch, enr, fcache, ai, net, rec>>

\* lines 678-685: one card of the page is extracted and kept when the
\* dictionary is not empty
ExtractCard ==
    /\ ext.state = "extract"
    /\ ext.cards # <<>>
    /\ LET card_data == extract_card_data(Head(ext.cards), "morbihan.gouv.fr")
       IN  ext' = [ext EXCEPT
             !.cards = Tail(@),
             !.results = IF Truthy(card_data) THEN Append(@, card_data) ELSE @,
             !.dropped = IF Truthy(card_data) THEN @ ELSE Append(@, Head(ext.cards))]
    /\ UNCHANGED <<syncVars, rq, pager, orch, enr, fcache, ai, net, rec>>

\* lines 689-694: the results go to save_to_database, or the page had none
HandOver ==
    /\ ext.state = "extract"
    /\ ext.cards = <<>>
    /\ ext' = [ext EXCEPT !.state = IF ext.results # <<>> THEN "save" ELSE "done"]
    /\ UNCHANGED <<syncVars, rq, pager, orch, enr, fcache, ai, net, rec>>

\* lines 511-561: save_to_database takes the next item; negative: the title
\* or description holds a negative keyword; known: a row with this link and
\* date exists. Otherwise the item is classified (ICPE checks)
SaveItem ==
    /\ ext.state = "save"
    /\ \E negative, known \in BOOLEAN :
         LET item == Head(ext.results)
             entry == [title |-> Get(item, "title", <<>>),
                       link |-> Get(item, "link", NoHref)]
             rest == Tail(ext.results)
         IN  ext' = [ext EXCEPT
               !.results = rest,
               !.classified = IF negative \/ known THEN @ ELSE Append(@, entry),
               !.state = IF rest = <<>> THEN "done" ELSE "save"]
    /\ UNCHANGED <<syncVars, rq, pager, orch, enr, fcache, ai, net, rec>>

NextExtract == ExtractPage \/ ExtractCard \/ HandOver \/ SaveItem

SpecExtract == Init /\ [][NextExtract]_vars

\* ------------------------------------ analysis.py: enrichment with PDF text
PER_PDF_CHAR_LIMIT == 200000
TOTAL_PDF_CHAR_BUDGET == 400000
PdfCapLimit == 3

\* hrefs of PDF links on a detail page; one differs from another only by a
\* leading blank, one is blank
PdfUrls == {<<"a">>, <<" ", "a">>, <<" ">>, <<"b">>, <<"c">>, <<"d">>}

\* len(pdf_text) of what extract_text_from_pdf gives (0: no text)
PdfLengths == {0, 150000, 200000, 250000}

Elements(seq) == {seq[i] : i \in 1..Len(seq)}

\* text[:n], on lengths
SliceLen(len, n) == IF len > n THEN n ELSE len

RECURSIVE SumSeq(_)
SumSeq(seq) == IF seq = <<>> THEN 0 ELSE Head(seq) + SumSeq(Tail(seq))

\* the sample is never full
SampleNeverFull(pdf_sample) == FALSE

\* line 692: len(pdf_sample) >= 3
SampleFull(pdf_sample) == Len(pdf_sample) >= PdfCapLimit

\* lines 684-693: the first distinct non-blank links, in page order
RECURSIVE PdfSample(_, _)
PdfSample(linked_pdfs, pdf_sample) ==
    IF linked_pdfs = <<>> THEN pdf_sample
    ELSE LET u_norm == Strip(Head(linked_pdfs))
         IN  IF u_norm = <<>> \/ u_norm \in Elements(pdf_sample)
             THEN PdfSample(Tail(linked_pdfs), pdf_sample)
             ELSE IF SampleFull(Append(pdf_sample, u_norm))
                  THEN Append(pdf_sample, u_norm)
                  ELSE PdfSample(Tail(linked_pdfs), Append(pdf_sample, u_norm))

\* lines 660-671: the primary classification of the document, then
\* lines 675-693: enrichment starts when it is intensive farming and the
\* page lists PDF links
EnrichPrimary ==
    /\ enr.state = "idle"
    /\ \E is_animal_project, answer, harvest_raised \in BOOLEAN :
       \E n \in 0..MaxPdfLinks : \E linked_pdfs \in [1..n -> PdfUrls] :
         LET is_intensive_farming == is_animal_project /\ answer
             harvested == is_intensive_farming /\ ~harvest_raised
             enriching == harvested /\ linked_pdfs # <<>>
         IN  /\ harvest_raised => (is_intensive_farming /\ n = 0)
             /\ enr' = [EnrIdle EXCEPT
                   !.state = IF enriching THEN "pdfs" ELSE "done",
                   !.is_animal_project = is_animal_project,
                   !.is_intensive_farming = is_intensive_farming,
                   !.ran = is_intensive_farming,
                   !.nlinks = n,
                   !.failed = IF harvest_raised THEN "harvest" ELSE "-",
                   !.pdf_sample = IF enriching THEN PdfSample(linked_pdfs, <<>>) ELSE <<>>]
    /\ UNCHANGED <<syncVars, rq, pager, orch, ext, fcache, ai, net, rec>>

\* an exception of extract_text_from_pdf leaves the loop over the sample
PdfErrorEscapesIfRaised(raised) == raised

\* lines 717-719: `except Exception as pdf_err: ... continue` inside the
\* loop: no exception of one PDF leaves the loop
PdfErrorEscapes(raised) == FALSE

\* lines 698-719: one iteration of `for pdf_url in pdf_sample`; an exception
\* that left the loop would reach the handler of line 756
EnrichPdf ==
    /\ enr.state = "pdfs"
    /\ enr.done < Len(enr.pdf_sample)
    /\ IF enr.total_appended >= TOTAL_PDF_CHAR_BUDGET
       THEN enr' = [enr EXCEPT !.state = "refine"]
       ELSE \E raised \in BOOLEAN : \E len \in PdfLengths :
              LET pdf_url == enr.pdf_sample[enr.done + 1]
                  capped == SliceLen(len, PER_PDF_CHAR_LIMIT)
                  remaining == TOTAL_PDF_CHAR_BUDGET - enr.total_appended
                  pdf_text == SliceLen(capped, remaining)
                  tried == [enr EXCEPT !.done = @ + 1,
                                       !.extracted = Append(@, pdf_url),
                                       !.raised_at = IF raised /\ @ = 0
                                                     THEN enr.done + 1 ELSE @]
              IN  /\ raised => len = 0
                  /\ enr' = IF PdfErrorEscapes(raised)
                            THEN [tried EXCEPT !.state = "done", !.failed = "pdf"]
                            ELSE IF raised \/ len = 0 THEN tried
                            ELSE IF remaining <= 0
                                 THEN [tried EXCEPT !.state = "refine"]
                                 ELSE [tried EXCEPT
                                         !.appended_texts = Append(@, pdf_text),
                                         !.total_appended = @ + pdf_text]
    /\ UNCHANGED <<syncVars, rq, pager, orch, ext, fcache, ai, net, rec>>

\* lines 721-757: the loop is over; with appended text the analysis is run
\* again on the enriched text and its answer replaces the primary one; if
\* trim_text or get_document_info raises, the handler of line 756 logs and
\* the primary answer stays.  In state "done" the candidate is at line 759
EnrichRefine ==
    /\ enr.state \in {"pdfs", "refine"}
    /\ enr.state = "pdfs" => enr.done = Len(enr.pdf_sample)
    /\ \E refine_raised \in BOOLEAN :
         LET refined == enr.appended_texts # <<>> /\ ~refine_raised
         IN  /\ refine_raised => enr.appended_texts # <<>>
             /\ enr' = [enr EXCEPT !.state = "done",
                                   !.refined = refined,
                                   !.failed = IF refine_raised THEN "refine" ELSE @,
                                   !.result = IF refined THEN "refined" ELSE "primary"]
    /\ UNCHANGED <<syncVars, rq, pager, orch, ext, fcache, ai, net, rec>>

NextEnrich == EnrichPrimary \/ EnrichPdf \/ EnrichRefine

SpecEnrich == Init /\ [][NextEnrich]_vars

\* ------------------------------------------------ the bounded fetch cache
CacheTtl == 2
CacheMaxItems == 2
CacheMaxBytes == 3

\* fetch targets and the estimated size of their text
CacheKeys == {"p", "q", "r"}
SizeOf(key) == IF key = "r" THEN 2 ELSE 1

\* position of the entry of key in the cache, 0 when it has none
IndexOf(entries, key) ==
    IF \E i \in 1..Len(entries) : entries[i].key = key
    THEN CHOOSE i \in 1..Len(entries) : entries[i].key = key
    ELSE 0

Without(entries, key) == SelectSeq(entries, LAMBDA e : e.key # key)

\* an entry never expires
WithinTtlAlways(entry, now) == TRUE

\* the entry was stored less than the TTL ago
WithinTtl(entry, now) == now - entry.at < CacheTtl

OverCaps(entries) ==
    \/ Len(entries) > CacheMaxItems
    \/ SumSeq([i \in 1..Len(entries) |-> entries[i].size]) > CacheMaxBytes

\* strict LRU: the oldest entries go until both caps are met
RECURSIVE Evict(_)
Evict(entries) ==
    IF entries # <<>> /\ OverCaps(entries) THEN Evict(Tail(entries)) ELSE entries

\* get_or_compute(key, compute_fn): compute_fn gives the text the target
\* has now (content); purge: this call also drops the expired entries
CacheGetOrCompute ==
    /\ \E key \in CacheKeys, purge \in BOOLEAN :
         LET swept == IF purge
                      THEN SelectSeq(fcache.entries, LAMBDA e : WithinTtl(e, fcache.now))
                      ELSE fcache.entries
             i == IndexOf(swept, key)
             hit == i # 0 /\ WithinTtl(swept[IF i = 0 THEN 1 ELSE i], fcache.now)
             before == IndexOf(fcache.entries, key)
             value == IF hit THEN swept[i].value ELSE fcache.content
             entry == [key |-> key, value |-> value, size |-> SizeOf(key),
                       at |-> IF hit THEN swept[i].at ELSE fcache.now]
         IN  fcache' = [fcache EXCEPT
               !.entries = IF hit THEN Append(Without(swept, key), entry)
                           ELSE Evict(Append(Without(swept, key), entry)),
               !.last = [called |-> TRUE, key |-> key, value |-> value,
                         computed |-> ~hit,
                         stored |-> IF before = 0 THEN -1
                                    ELSE fcache.entries[before].value,
                         age |-> IF before = 0 THEN -1
                                 ELSE fcache.now - fcache.entries[before].at,
                         content |-> fcache.content]]
    /\ UNCHANGED <<syncVars, rq, pager, orch, ext, enr, ai, net, rec>>

\* clear()
CacheClear ==
    /\ fcache.entries # <<>>
    /\ fcache' = [fcache EXCEPT !.entries = <<>>, !.last = CacheIdle.last]
    /\ UNCHANGED <<syncVars, rq, pager, orch, ext, enr, ai, net, rec>>

\* time passes
CacheTick ==
    /\ fcache.now < MaxCacheClock
    /\ fcache' = [fcache EXCEPT !.now = @ + 1, !.last = CacheIdle.last]
    /\ UNCHANGED <<syncVars, rq, pager, orch, ext, enr, ai, net, rec>>

\* the fetch targets change their content
ContentChange ==
    /\ fcache' = [fcache EXCEPT !.content = 1 - @, !.last = CacheIdle.last]
    /\ UNCHANGED <<syncVars, rq, pager, orch, ext, enr, ai, net, rec>>

NextCache == CacheGetOrCompute \/ CacheClear \/ CacheTick \/ ContentChange

SpecCache == Init /\ [][NextCache]_vars

\* ------------------------ extract_arretes_prefectoraux_from_page_ai alone
\* what the oracle can put in one entry: a title, blank or empty; a link
\* that is empty, relative, a bare fragment, the page itself (with or
\* without a trailing slash) or another page
AiEntries ==
    [title : {tAvis, <<" ">>, <<>>},
     link : {NoHref, Ls, Lself, Lx, [Lx EXCEPT !.slash = TRUE], La},
     date_updated : {Detail("", DateRecent, TRUE)}]

\* lines 417-476: the function is called on the index page and the oracle
\* answers (aiOk FALSE: the call raised)
AiCall ==
    /\ ai.state = "idle"
    /\ \E aiOk \in BOOLEAN : \E n \in 0..MaxArretes : \E arretes \in [1..n -> AiEntries] :
         ai' = [state |-> "done", page_url |-> Lx, aiOk |-> aiOk, arretes |-> arretes,
                result |-> extract_arretes_prefectoraux_from_page_ai(Lx, aiOk, arretes)]
    /\ UNCHANGED <<syncVars, rq, pager, orch, ext, enr, fcache, net, rec>>

NextAi == AiCall

SpecAi == Init /\ [][NextAi]_vars

\* ------------------------------------- the session shared in one process
\* lines 103-104 of make_request_with_retry (and 178 of initialize_scraper):
\* session.headers.update(get_headers()) on the module-level session
RotateHeaders(i) ==
    /\ net.th[i].state = "idle"
    /\ \E ua \in UserAgents :
         net' = [net EXCEPT !.session.ua = ua,
                            !.th[i].state = "ready",
                            !.th[i].ua = ua]
    /\ UNCHANGED <<syncVars, rq, pager, orch, ext, enr, fcache, ai, rec>>

\* line 107: session.get(url, timeout=timeout) starts on whatever object
\* the global names at this moment
SessionGet(i) ==
    /\ net.th[i].state = "ready"
    /\ net' = [net EXCEPT !.th[i].state = "inflight",
                          !.th[i].sid = net.session.id]
    /\ UNCHANGED <<syncVars, rq, pager, orch, ext, enr, fcache, ai, rec>>

\* lines 107-111 and 860-881 of scrape_all_results: the response arrives;
\* an empty page ends the crawl, a page with cards counts; every ResetEvery
\* pages the session is reset
SessionReturn(i) ==
    /\ net.th[i].state = "inflight"
    /\ \E empty \in BOOLEAN :
         IF empty
         THEN net' = [net EXCEPT !.th[i].state = "idle", !.th[i].page_count = 0]
         ELSE /\ net.th[i].page_count < MaxPagesFetched
              /\ LET page_count == net.th[i].page_count + 1
                 IN  net' = [net EXCEPT !.th[i].page_count = page_count,
                                        !.th[i].state = IF page_count % ResetEvery = 0
                                                        THEN "reset" ELSE "idle"]
    /\ UNCHANGED <<syncVars, rq, pager, orch, ext, enr, fcache, ai, rec>>

\* line 165 of reset_session: session.close()
SessionClose(i) ==
    /\ net.th[i].state = "reset"
    /\ net.session.id < MaxResets
    /\ net' = [net EXCEPT !.session.open = FALSE, !.th[i].state = "closed"]
    /\ UNCHANGED <<syncVars, rq, pager, orch, ext, enr, fcache, ai, rec>>

\* lines 166-169 of reset_session: the global is bound to a new Session
SessionRebind(i) ==
    /\ net.th[i].state = "closed"
    /\ net' = [net EXCEPT !.session = [id |-> @.id + 1, open |-> TRUE, ua |-> "default"],
                          !.th[i].state = "idle"]
    /\ UNCHANGED <<syncVars, rq, pager, orch, ext, enr, fcache, ai, rec>>

NextNet ==
    \E i \in Pipelines :
        \/ RotateHeaders(i)
        \/ SessionGet(i)
        \/ SessionReturn(i)
        \/ SessionClose(i)
        \/ SessionRebind(i)

SpecNet == Init /\ [][NextNet]_vars

\* ------------------------------------- index pages inside index pages
\* a second index page of the site
Ly == Url(TRUE, "y", "")
IndexPaths == {"x", "y"}

\* the download links an index page can hold: to a document, to either
\* index page or to the page itself, under a plain title or a year
NestedLinks ==
    {DownloadLink(h, TRUE, DateRecent, t) : h \in {La, Lx, Ly, Lself}, t \in {tAvis, tYear}}

NestedPages ==
    {[text |-> "ok", dl |-> dl, ai |-> <<>>, aiOk |-> TRUE] :
        dl \in UNION {[1..n -> NestedLinks] : n \in 0..MaxSubLinks}}

\* lines 562-578: the text of the page behind link; a page that is not an
\* index page of the site has no download link and no answer of the oracle
PageBehind(site, link) ==
    IF link.path \in DOMAIN site THEN site[link.path]
    ELSE [text |-> "ok", dl |-> <<>>, ai |-> <<>>, aiOk |-> TRUE]

\* line 512: save_to_database is called with the card of index page x
RecStart ==
    /\ rec.state = "idle"
    /\ \E site \in [IndexPaths -> NestedPages] :
         rec' = [state |-> "run", site |-> site,
                 stack |-> <<[url |-> Lx, pending |-> ResolveIndexPage(Lx, site["x"])]>>,
                 expansions |-> 1]
    /\ UNCHANGED <<syncVars, rq, pager, orch, ext, enr, fcache, ai, net>>

\* lines 626-629: the next sub-document is handed to save_to_database;
\* lines 542-619 in that call: a title detected as an index page makes the
\* call resolve the page behind the link and recurse over what it finds.
\* A call deeper than the interpreter allows raises RecursionError, which
\* the handler of line 826 turns into a skip.
RecNext ==
    /\ rec.state = "run"
    /\ rec.stack # <<>>
    /\ LET depth == Len(rec.stack)
           frame == rec.stack[depth]
       IN  /\ frame.pending # <<>>
           /\ LET card == Head(frame.pending)
                  rest == [rec.stack EXCEPT ![depth].pending = Tail(@)]
              IN  IF detect_multi_document_page(card.title) /\ depth < MaxDepth
                  THEN rec' = [rec EXCEPT
                         !.stack = Append(rest,
                                     [url |-> card.link,
                                      pending |-> ResolveIndexPage(card.link,
                                                      PageBehind(rec.site, card.link))]),
                         !.expansions = @ + 1]
                  ELSE rec' = [rec EXCEPT !.stack = rest]
    /\ UNCHANGED <<syncVars, rq, pager, orch, ext, enr, fcache, ai, net>>

\* lines 631-638 and 830: the loop over the sub-documents is over, the call
\* returns
RecReturn ==
    /\ rec.state = "run"
    /\ rec.stack # <<>>
    /\ rec.stack[Len(rec.stack)].pending = <<>>
    /\ rec' = [rec EXCEPT !.stack = SubSeq(@, 1, Len(@) - 1),
                          !.state = IF Len(rec.stack) = 1 THEN "done" ELSE @]
    /\ UNCHANGED <<syncVars, rq, pager, orch, ext, enr, fcache, ai, net>>

NextRec == RecStart \/ RecNext \/ RecReturn

SpecRec == Init /\ [][NextRec]_vars

\* the row of the detail page as an earlier crawl classified it, when the
\* page said something else
SeedRowEarlier == [SeedRow EXCEPT !.summary = "earlier", !.animal_type = "earlier"]

InitReclass == InitStore({SeedRowEarlier}, 2) /\ InitSide

\* one worker process crawling over a store whose row was classified on an
\* earlier content of the page
SpecReclass == InitReclass /\ [][NextOracle]_vars

\* ------------------------------------------------------------ properties
WriteOps == {"create", "update"}

\* the branches that are reached only after line 646 has been evaluated
PastFilters == {"identity", "created", "updated", "unchanged", "write_error",
                "fetch_error", "oracle_error"}

\* C1: a crawl repeated after a completed crawl, with the same pages, the
\* same negative keywords and the same oracle answers, performs no create
\* and no update, whatever the cards' date labels
C1_Idempotent ==
    \A w \in Workers :
        (hist[w].prevSame /\ hist[w].quiet) => hist[w].writes = 0

\* C2: the store never holds two rows with the same link, whatever the
\* interleaving of the two workers
C2_OneRowPerLink ==
    \A r1 \in store : \A r2 \in store : r1.link = r2.link => r1 = r2

\* two workers had looked up the same link, found nothing, and the second
\* create was refused
C2_Witness ==
    \E w \in Workers : \E v \in Workers \ {w} :
        /\ cur[w].branch = "write_error"
        /\ cur[w].existing.id = 0
        /\ cur[v].branch = "created"
        /\ cur[v].card.link = cur[w].card.link

\* C3: when a crawl has completed, no stored row has a title or description
\* containing (case-insensitively) a keyword that was in the table when the
\* crawl started
C3_NoNegativeAfterRun ==
    \A w \in Workers :
        (pc[w] = "idle" /\ runs[w] > 0) =>
            \A r \in store :
                ~contains_negative_keywords(LoadKeywords(hist[w].kwAtStart),
                                            r.title, r.description)

\* C4 as stated: every create or update writes a date_updated that is
\* inside the lookback window at the moment of the write
C4_FreshAtWrite ==
    \A w \in Workers : \A e \in log[w] :
        e.op \in WriteOps => e.date >= e.at - args[w].days_limit

\* C4 amended: every create or update writes a date_updated that was inside
\* the lookback window when line 641 compared it, and a candidate found
\* outside the window there is neither fetched past that line nor written
C4_FreshWhenChecked ==
    \A w \in Workers :
        /\ \A e \in log[w] :
             e.op \in WriteOps => e.date >= e.checked - args[w].days_limit
        /\ (/\ cur[w].branch # "none"
            /\ cur[w].date_updated < cur[w].checkedAt - args[w].days_limit)
           => (cur[w].saved = 0 /\ pc[w] = "next" /\ cur[w].branch \notin PastFilters)

\* a create issued after the clock moved past the window of its date
C4_Witness ==
    \E e \in log[1] :
        /\ e.op = "create"
        /\ e.at > e.checked
        /\ e.date < e.at - args[1].days_limit

\* C5: a candidate whose title plus description contains a keyword of the
\* table is never fetched, classified, created or updated
C5_NegativeNeverWritten ==
    \A w \in Workers :
        (cur[w].branch # "none" /\ cur[w].cfgNeg) =>
            /\ cur[w].branch \in {"negative", "lookup_error"}
            /\ ~cur[w].fetched
            /\ cur[w].saved = 0

\* C6: processing a card whose title marks an index page creates or updates
\* no row with that card's link
C6_IndexNotPersisted ==
    \A w \in Workers :
        (cur[w].branch # "none" /\ detect_multi_document_page(cur[w].top.title)) =>
            \A e \in log[w] : e.op \in WriteOps => e.link # cur[w].top.link

\* C7 as stated: a candidate past the filters whose title or description
\* differs from the stored row's ends in an update
C7_UpdateOnAnyDifference ==
    \A w \in Workers :
        LET c == cur[w]
        IN  (/\ pc[w] = "next"
             /\ c.branch \in {"identity", "updated", "unchanged"}
             /\ \/ c.existing.title # c.card.title
                \/ c.existing.description # c.card.description)
            => c.branch = "updated"

\* C7 amended: for a candidate past the negative-keyword, index and
\* freshness filters the decision is made on date_updated alone: a stored
\* row with the same date_updated means nothing is done, whatever the other
\* fields; otherwise, when fetch and classification succeed, the row is
\* created if the link had none and updated if it had one
C7_SyncByDate ==
    \A w \in Workers :
        LET c == cur[w]
            same == c.existing.id # 0 /\ c.existing.date_updated = c.date_updated
            ok == c.classified /\ c.info = "plain"
        IN  (pc[w] = "next" /\ c.branch \in PastFilters) =>
                /\ same <=> c.branch = "identity"
                /\ same => (~c.fetched /\ c.saved = 0)
                /\ (~same /\ ok /\ c.existing.id = 0) => (c.branch = "created" /\ c.saved = 1)
                /\ (~same /\ ok /\ c.existing.id # 0) => (c.branch = "updated" /\ c.saved = 1)
                /\ (~same /\ ~ok) => (c.branch \in {"fetch_error", "oracle_error"} /\ c.saved = 0)

\* a candidate with a new title and the stored date_updated was left alone
C7_Witness ==
    /\ pc[1] = "next"
    /\ cur[1].branch = "identity"
    /\ cur[1].existing.title # cur[1].card.title

\* C8: a candidate that is not an index page, matches no negative keyword
\* and has a stored row with its link and its date_updated is not fetched,
\* not classified, not written and adds 0 to the returned count
C8_IdentityNoOp ==
    \A w \in Workers :
        LET c == cur[w]
        IN  (/\ c.branch \notin {"none", "negative"}
             /\ c.hadSameDate
             /\ ~detect_multi_document_page(c.card.title))
            => /\ ~c.fetched
               /\ ~c.classified
               /\ c.saved = 0
               /\ pc[w] = "next"
               /\ c.branch \in {"identity", "stale"}

\* the short-circuit was taken for a candidate inside the window
C8_Witness ==
    /\ cur[1].branch = "identity"
    /\ cur[1].hadSameDate
    /\ cur[1].date_updated >= cur[1].checkedAt - args[1].days_limit

\* C9: a timeout, a connection failure, an HTTP 429 or an HTTP 5xx is raised
\* to the caller only when no attempt remains (attempt index = max_retries)
C9_TransientRetried ==
    (rq.state = "raised" /\ rq.seen[Len(rq.seen)] \in TransientKinds)
        => rq.attempt = rq.max_retries

\* C10: at most max_retries + 1 attempts are made, none after a success,
\* and a call that saw only transient failures raises on attempt
\* max_retries + 1, not earlier
C10_RaisesOnLastAttempt ==
    /\ Len(rq.seen) <= rq.max_retries + 1
    /\ \A i \in 1..(Len(rq.seen) - 1) : rq.seen[i] # "ok"
    /\ (/\ rq.state = "raised"
        /\ \A i \in 1..Len(rq.seen) : rq.seen[i] \in TransientKinds)
       => Len(rq.seen) = rq.max_retries + 1

\* C11: the pager requests the offsets 0, 10, 20, ... in this order, the
\* next one only after a page that gave cards, none above 1000, stops at
\* the first page without cards, and makes at most 101 requests
C11_PagerBounded ==
    /\ pager.requests > 0 => pager.last = OffsetStep * (pager.requests - 1)
    /\ pager.last <= OffsetCeiling
    /\ pager.requests <= (OffsetCeiling \div OffsetStep) + 1
    /\ pager.state = "loop" => (pager.offset = OffsetStep * pager.requests /\ ~pager.lastEmpty)
    /\ pager.lastEmpty => (pager.state = "done" /\ pager.stop = "empty")
    /\ pager.state = "done" =>
          \/ pager.stop = "empty" /\ pager.lastEmpty
          \/ pager.stop = "ceiling" /\ ~pager.lastEmpty /\ pager.offset > OffsetCeiling

\* the loop ended at the ceiling after the page at offset 1000 gave cards
C11_Witness ==
    pager.state = "done" /\ pager.stop = "ceiling" /\ pager.last = OffsetCeiling

\* C12: when a crawl has returned, the count its caller reads from the
\* returned value is the number of documents it created plus the number it
\* updated
C12_ReturnsChangeCount ==
    \A w \in Workers :
        (pc[w] = "idle" /\ runs[w] > 0) => hist[w].ret = hist[w].writes

\* C13: the entry recorded for an operation whose results page could not be
\* fetched carries a failure marker and is not the entry of an empty page.
C13_FailureDistinguished ==
    \A i \in TaskIds :
        orch.tasks[i].truth = "fetch_failed" =>
            /\ orch.tasks[i].entry.error
            /\ orch.tasks[i].entry # EntryOf("empty")

\* C14: once the cancellation of a task was requested, the task starts no
\* further (source, keyword) crawl.
C14_NoCrawlAfterCancel ==
    \A i \in TaskIds : ~orch.tasks[i].afterCancel

\* C15: no two crawls are in flight for the same source domain, whatever
\* the starts through the admin view, the admin action and the commands.
C15_OneCrawlPerDomain ==
    \A i, j \in TaskIds :
        (i # j /\ orch.tasks[i].crawling # "-") =>
            orch.tasks[i].crawling # orch.tasks[j].crawling

\* two starts passed the running-task check together; one task crawls
\* while the other waits in the queue
C15_Witness ==
    \E i, j \in TaskIds :
        /\ i # j
        /\ orch.tasks[i].via \in {"view", "action"}
        /\ orch.tasks[j].via \in {"view", "action"}
        /\ orch.tasks[i].crawling # "-"
        /\ orch.tasks[j].phase = "queued"

\* C16: a task whose filters select no prefecture aborts before any
\* operation starts and any fetch is made; the enhanced task marks its
\* record FAILURE.
C16_EmptySetAborts ==
    \A i \in TaskIds :
        LET t == orch.tasks[i]
        IN  (t.phase \notin {"none", "cleared", "refused", "queued"}
             /\ prefectures_to_scrape(t.filter).list = <<>>) =>
                /\ t.phase \in {"aborted", "killed"}
                /\ t.started = 0
                /\ ~t.fetched
                /\ (t.kind = "enhanced" /\ t.phase = "aborted" => t.status = "FAILURE")

C16_Witness ==
    \E i \in TaskIds :
        /\ orch.tasks[i].phase = "aborted"
        /\ orch.tasks[i].kind = "enhanced"
        /\ orch.tasks[i].filter.region_filter = "Bretagne"
        /\ orch.tasks[i].status = "FAILURE"

\* C17: every record handed from card extraction to save_to_database, and
\* every record that enters classification, has a non-empty link; a card
\* with neither title nor link is dropped by the extractor.
C17_LinkPresent ==
    /\ \A i \in 1..Len(ext.results) :
         /\ "link" \in DOMAIN ext.results[i]
         /\ ext.results[i]["link"].path # ""
    /\ \A i \in 1..Len(ext.classified) : ext.classified[i].link.path # ""

\* C18: while one document is enriched at most 3 distinct PDFs are
\* text-extracted, each appended text has at most 200,000 characters and
\* all of them together at most 400,000; enrichment runs only for an animal
\* project found to be intensive farming.
C18_EnrichmentCaps ==
    /\ Len(enr.extracted) <= 3
    /\ \A i, j \in 1..Len(enr.extracted) : i # j => enr.extracted[i] # enr.extracted[j]
    /\ \A i \in 1..Len(enr.appended_texts) : enr.appended_texts[i] <= 200000
    /\ SumSeq(enr.appended_texts) <= 400000
    /\ enr.total_appended = SumSeq(enr.appended_texts)
    /\ (enr.ran \/ enr.extracted # <<>> \/ enr.refined) =>
           (enr.is_animal_project /\ enr.is_intensive_farming)

\* a page with more links than the cap, three PDFs extracted, the third
\* cut down to what was left of the budget
C18_Witness ==
    /\ enr.state = "done"
    /\ enr.nlinks > 3
    /\ Len(enr.extracted) = 3
    /\ enr.appended_texts = <<200000, 150000, 50000>>
    /\ enr.refined

\* C19: a candidate whose primary oracle call raised causes no create, no
\* update and no delete: it is skipped, the row stored for its link is the
\* one found before the call, and no row carries a failed oracle answer.
C19_OracleFailureSkips ==
    /\ \A r \in store : r.summary # "error" /\ r.animal_type # "error"
    /\ \A w \in Workers :
         (cur[w].branch # "none" /\ cur[w].info = "error") =>
            /\ cur[w].branch = "oracle_error"
            /\ cur[w].saved = 0
            /\ pc[w] # "write"
            /\ (pc[w] = "next" =>
                   FindByLink(store, cur[w].card.link) = cur[w].existing)

\* the oracle failed on a fresh candidate whose link has a stored row
C19_Witness ==
    /\ cur[1].branch = "oracle_error"
    /\ cur[1].existing = SeedRow
    /\ cur[1].date_updated # SeedRow.date_updated
    /\ pc[1] = "next"
    /\ SeedRow \in store

\* C20: get_or_compute returns the stored value without computing when the
\* key has an entry stored less than the TTL ago, and otherwise (no entry,
\* or an expired one) computes and returns the fresh result, never the old
\* value; the result of a miss is stored as for a cold fetch.
C20_HitOrRecompute ==
    LET l == fcache.last
        valid == l.age >= 0 /\ l.age < 2
        i == IndexOf(fcache.entries, l.key)
    IN  l.called =>
          /\ valid => (~l.computed /\ l.value = l.stored)
          /\ ~valid => (l.computed /\ l.value = l.content)
          /\ i # 0 /\ fcache.entries[i].value = l.value
          /\ l.computed => fcache.entries[i].at = fcache.now

\* a call on an expired entry whose stored text differs from the present
C20_Witness ==
    /\ fcache.last.called
    /\ fcache.last.age >= 2
    /\ fcache.last.stored # fcache.last.content
    /\ fcache.last.computed
    /\ fcache.last.value = fcache.last.content

\* C21: an update overwrites prefecture_name, prefecture_code and
\* region_name only by non-empty values: an update made for a domain that
\* maps to no prefecture leaves the three stored fields as they were.
C21_AttributionKept ==
    \A w \in Workers :
        LET c == cur[w]
            r == FindByLink(store, c.card.link)
            pref == get_prefecture_by_domain(args[w].domain)
        IN  (c.branch = "updated" /\ pc[w] = "next" /\ r.id = c.existing.id) =>
               /\ r.prefecture_name = IF pref.name = "" THEN c.existing.prefecture_name
                                      ELSE pref.name
               /\ r.prefecture_code = IF pref.code = "" THEN c.existing.prefecture_code
                                      ELSE pref.code
               /\ r.region_name = IF pref.region = "" THEN c.existing.region_name
                                  ELSE pref.region

\* a row attributed to Morbihan was updated by a crawl of the unlisted domain
C21_Witness ==
    /\ cur[1].branch = "updated"
    /\ pc[1] = "next"
    /\ args[1].domain = Domains[2]
    /\ cur[1].existing.prefecture_name = "Morbihan"
    /\ FindByLink(store, cur[1].card.link).prefecture_name = "Morbihan"
    /\ FindByLink(store, cur[1].card.link).date_updated # cur[1].existing.date_updated

\* C22: every card the AI-assisted pass returns has a non-empty title and a
\* non-empty absolute link that is not the page's own URL; the cards are
\* the oracle entries that pass the checks on the title, on the link and on
\* the link against the page before and after it is made absolute, in
\* oracle order.
C22_AiEntriesValidated ==
    LET url == ai.page_url
        same(l) == [l EXCEPT !.slash = FALSE] = [url EXCEPT !.slash = FALSE]
        whole(l) == IF l.abs THEN l
                    ELSE IF l.path = "#" THEN url ELSE [l EXCEPT !.abs = TRUE]
        good(a) == /\ \E i \in 1..Len(a.title) : a.title[i] # " "
                   /\ a.link.path # ""
                   /\ ~same(a.link)
                   /\ ~same(whole(a.link))
        goodIdx == {i \in 1..Len(ai.arretes) : good(ai.arretes[i])}
        before(i) == Cardinality({j \in goodIdx : j < i})
    IN  /\ \A k \in 1..Len(ai.result) :
              /\ ai.result[k].title # <<>>
              /\ ai.result[k].link.path # ""
              /\ ai.result[k].link.abs
              /\ ~same(ai.result[k].link)
        /\ ai.aiOk => /\ Len(ai.result) = Cardinality(goodIdx)
                      /\ \A i \in goodIdx :
                            /\ ai.result[before(i) + 1].title = ai.arretes[i].title
                            /\ ai.result[before(i) + 1].link = whole(ai.arretes[i].link)
        /\ ~ai.aiOk => ai.result = <<>>

\* an answer with a valid entry after one whose link is a bare fragment of
\* the page: only the valid one is returned
C22_Witness ==
    /\ ai.state = "done"
    /\ ai.aiOk
    /\ Len(ai.arretes) = 2
    /\ ai.arretes[1].link = Lself
    /\ ai.arretes[1].title = tAvis
    /\ ai.arretes[2].link = Ls
    /\ Len(ai.result) = 1
    /\ ai.result[1].link = urljoin(Lx, Ls)

\* C23: for an index page the AI-assisted extraction is called only when
\* the deterministic pass recovered no sub-document; when both passes give
\* nothing the page is skipped: no store write, and the loop goes on.
C23_AiOnlyAsFallback ==
    \A w \in Workers :
        LET c == cur[w]
            recovered == {i \in 1..Len(indexPage.dl) :
                             /\ indexPage.dl[i].href.path # ""
                             /\ indexPage.dl[i].hasDate
                             /\ Strip(indexPage.dl[i].text) # <<>>}
        IN  (c.branch = "index" /\ c.card = c.top) =>
               /\ c.classified => (recovered = {} /\ indexPage.text = "ok")
               /\ (recovered # {} /\ indexPage.text = "ok") => Len(todo[w]) = Cardinality(recovered)
               /\ todo[w] = <<>> => (c.saved = 0 /\ log[w] = {} /\ pc[w] \in {"next", "idle"})

\* an index page on which the deterministic pass finds nothing and the
\* oracle call fails: the page is skipped
C23_Witness ==
    /\ cur[1].branch = "index"
    /\ cur[1].classified
    /\ indexPage.dl = <<>>
    /\ ~indexPage.aiOk
    /\ todo[1] = <<>>
    /\ pc[1] = "next"

ErrorBranches == {"lookup_error", "fetch_error", "oracle_error", "write_error"}

\* C25: an exception while one candidate is processed (lookup, fetch,
\* oracle or write) leaves the loop of save_to_database running, and the
\* crawl ends only when every candidate of the list has been taken; an
\* exception in one crawl of a task leaves the other operations running,
\* and a task that is not stopped from outside ends SUCCESS with as many
\* operations started as total_operations.
C25_FailureContained ==
    /\ \A w \in Workers :
         /\ cur[w].branch \in ErrorBranches => pc[w] = "next"
         /\ (pc[w] = "idle" /\ runs[w] > 0) => (pos[w] = Len(page[w]) /\ todo[w] = <<>>)
    /\ \A i \in TaskIds :
         LET t == orch.tasks[i]
         IN  /\ t.raised => t.phase \in {"running", "done", "killed"}
             /\ (t.phase = "running" /\ ~t.cancelled /\ t.kind = "enhanced" /\ t.started > 0)
                   => t.status = "PROGRESS"
             /\ t.phase = "done" =>
                   /\ t.started = t.total_operations
                   /\ (t.kind = "enhanced" /\ ~t.cancelled) => t.status = "SUCCESS"

\* a task of two operations, one of whose crawls raised, has ended
C25_Witness ==
    /\ orch.tasks[1].phase = "done"
    /\ orch.tasks[1].kind = "enhanced"
    /\ orch.tasks[1].raised
    /\ orch.tasks[1].status = "SUCCESS"
    /\ orch.tasks[1].total_operations >= 2
    /\ orch.tasks[1].started = orch.tasks[1].total_operations

\* a crawl of two candidates has ended although the first one failed
C25_WitnessCandidates ==
    \E w \in Workers :
        /\ pc[w] = "next"
        /\ cur[w].branch \in ErrorBranches
        /\ HasCandidate(w)

\* C26: a sub-document the resolver recovered with a date label is processed
\* with date_updated equal to that date, so the freshness window and the
\* identity short-circuit are evaluated on the document's own date.
C26_SubDocumentOwnDate ==
    \A w \in Workers :
        LET c == cur[w]
        IN  (c.branch # "none" /\ c.card # c.top /\ c.card.detail.valid) =>
               c.date_updated = c.card.detail.date

\* C27: expanding an index page never leads to unbounded recursion: no page
\* is expanded inside its own expansion, so the depth of the calls never
\* exceeds the number of index pages of the site.
C27_RecursionBounded ==
    /\ Len(rec.stack) <= Cardinality(IndexPaths)
    /\ \A i, j \in 1..Len(rec.stack) :
         i # j => ~SamePage(rec.stack[i].url, rec.stack[j].url)

\* models.py TASK_STATUS_CHOICES: the statuses after which a task is over
TerminalStatuses == {"SUCCESS", "FAILURE", "REVOKED"}

\* C28: once the record of a task has a terminal status (SUCCESS, FAILURE
\* or REVOKED) no step of the admin or of the worker changes its status.
C28_TerminalStatusFinal ==
    [][\A i \in TaskIds :
          orch.tasks[i].status \in TerminalStatuses =>
              orch'.tasks[i].status = orch.tasks[i].status]_vars

\* C29: after an update every classification output stored for the link
\* (summary, animal type) is the one of the classification made in that
\* call, as it is for a newly created row.
C29_UpdateStoresClassification ==
    \A w \in Workers :
        cur[w].branch \in {"updated", "created"} =>
            \A r \in store :
                r.link = cur[w].card.link =>
                    (r.summary = cur[w].info /\ r.animal_type = cur[w].info)

\* C30: a failure while one linked PDF is extracted does not abort the
\* enrichment: every sampled PDF is tried unless the budget is used up; a
\* failure of the enrichment as a whole (harvesting the links, or the
\* second classification) does not abort the candidate, which goes on to
\* the write with the primary classification.
C30_EnrichmentFailureContained ==
    /\ (enr.state = "done" /\ enr.pdf_sample # <<>>) =>
          \/ enr.done = Len(enr.pdf_sample)
          \/ enr.total_appended >= TOTAL_PDF_CHAR_BUDGET
    /\ enr.raised_at > 0 => enr.failed \in {"-", "refine"}
    /\ enr.failed # "-" =>
          (enr.state = "done" /\ enr.result = "primary" /\ ~enr.refined)
    /\ (enr.result = "refined") = enr.refined
    /\ enr.refined => (enr.state = "done" /\ enr.appended_texts # <<>>)

\* the first of three sampled PDFs raised, the other two were read, and the
\* second classification failed: the candidate goes on with the primary one
C30_Witness ==
    /\ enr.state = "done"
    /\ enr.raised_at = 1
    /\ enr.done = 3
    /\ Len(enr.appended_texts) = 2
    /\ enr.failed = "refine"
    /\ enr.result = "primary"

=============================================================================
